---- MODULE Spec2Model ----
(***************************************************************************)
(* Model of app.py, a Streamlit sales dashboard.  The script body is rerun  *)
(* from its first line to its last on every interaction (a file upload, a  *)
(* change of the product multiselect, of the date range, of the question   *)
(* box).  One rerun is one action of the model; the values it writes to    *)
(* the page are the state.                                                  *)
(*                                                                          *)
(* Dates are days of January 2024: the day d stands for the timestamp      *)
(* 2024-01-0d 00:00.  Texts the code searches, splits or parses are        *)
(* sequences of one-character strings.  Money and units are integers.      *)
(***************************************************************************)
EXTENDS Integers, Sequences, FiniteSets

VARIABLES
    uploaded_file,    \* st.file_uploader: None, or the parsed CSV table
    product_filter,   \* st.sidebar.multiselect: the set of selected products
    date_range,       \* st.sidebar.date_input: a sequence of 1 or 2 days
    user_question,    \* st.text_input: the question text
    page              \* all that the last rerun wrote to the page

vars == <<uploaded_file, product_filter, date_range, user_question, page>>

\* ------------------------------------------------------------------ bounds

\* Longest dataset the pure-function specifications draw.
MaxRows == 2

\* Number of products in the datasets drawn for the top-products ranking.
NumTopProducts == 6

\* ---------------------------------------------------------- values and marks

Days == {1, 2}            \* the dates of drawn rows and of the date picker
ProductNames == <<"A", "B", "C", "D", "E", "F", "G", "H">>
Products == {"A", "B"}

\* src/app.py:28
required_columns ==
    {"Date", "Product", "Category", "Units Sold", "Price Per Unit",
     "Cost Per Unit", "Revenue", "Profit/Loss"}

\* .head(5) of the ranking, src/app.py:81
TopN == 5

\* The tips' correlation threshold 0.3 as the fraction CorrNum / CorrDen.
CorrNum == 3
CorrDen == 10

\* -------------------------------------------------------- sequence helpers

RECURSIVE SumSeq(_)
SumSeq(s) == IF s = <<>> THEN 0 ELSE Head(s) + SumSeq(Tail(s))

Column(rows, col) == [i \in 1..Len(rows) |-> rows[i][col]]

Range(s) == {s[i] : i \in 1..Len(s)}

Min(S) == CHOOSE x \in S : \A y \in S : x <= y
Max(S) == CHOOSE x \in S : \A y \in S : x >= y

\* Series.unique(): the distinct values in order of first appearance.
RECURSIVE Unique(_)
Unique(s) ==
    IF s = <<>> THEN <<>>
    ELSE LET u == Unique(SubSeq(s, 1, Len(s) - 1))
             x == s[Len(s)]
         IN  IF x \in Range(u) THEN u ELSE Append(u, x)

\* DataFrame.head(n)
HeadN(s, n) == SubSeq(s, 1, IF Len(s) < n THEN Len(s) ELSE n)

\* ------------------------------------------------------------------- texts

UpperToLower ==
    [c \in {"B", "H", "O", "N", "P", "M"} |->
        CASE c = "B" -> "b" [] c = "H" -> "h" [] c = "O" -> "o"
          [] c = "N" -> "n" [] c = "P" -> "p" [] c = "M" -> "m"]

\* str.lower()
Lower(s) ==
    [i \in 1..Len(s) |->
        IF s[i] \in DOMAIN UpperToLower THEN UpperToLower[s[i]] ELSE s[i]]

\* pat in s
OccursAt(s, pat, i) == \A j \in 1..Len(pat) : s[i + j - 1] = pat[j]

Contains(s, pat) == \E i \in 1..(Len(s) - Len(pat) + 1) : OccursAt(s, pat, i)

\* s.split(pat)[-1]: the text after the last occurrence of pat, or all of s
LastPiece(s, pat) ==
    LET hits == {i \in 1..(Len(s) - Len(pat) + 1) : OccursAt(s, pat, i)}
    IN  IF hits = {} THEN s
        ELSE SubSeq(s, Max(hits) + Len(pat), Len(s))

\* str.strip()
RECURSIVE Strip(_)
Strip(s) ==
    IF s = <<>> THEN s
    ELSE IF Head(s) = " " THEN Strip(Tail(s))
    ELSE IF s[Len(s)] = " " THEN Strip(SubSeq(s, 1, Len(s) - 1))
    ELSE s

DigitChars == <<"1", "2", "3", "4", "5", "6", "7", "8", "9">>
DatePrefix == <<"2", "0", "2", "4", "-", "0", "1", "-", "0">>

\* What pd.to_datetime gives for one text: a timestamp (kind "ts", its day),
\* NaT, or a raised exception (kind "error").
Timestamp(d) == [kind |-> "ts", day |-> d]
NaT == [kind |-> "NaT", day |-> 0]
ParserError == [kind |-> "error", day |-> 0]

\* pd.to_datetime(text): the day the text names, NaT for an empty text, an
\* exception for any other text
ToDatetime(s) ==
    IF s = <<>> THEN NaT
    ELSE IF /\ Len(s) = Len(DatePrefix) + 1
            /\ SubSeq(s, 1, Len(DatePrefix)) = DatePrefix
            /\ s[Len(s)] \in Range(DigitChars)
         THEN Timestamp(CHOOSE d \in 1..Len(DigitChars) : DigitChars[d] = s[Len(s)])
         ELSE ParserError

\* Timestamp.strftime("%Y-%m-%d") of the day d
Strftime(d) == DatePrefix \o <<DigitChars[d]>>

\* ------------------------------------------------------ load and validate

\* st.file_uploader before any upload: no file
None == [name |-> "None", columns |-> {}, rows |-> <<>>]

\* A load_data that keeps the first table of the session (a cached loader)
load_data_cached(file) ==
    IF file # None THEN (IF uploaded_file # None THEN uploaded_file ELSE file) ELSE None

\* load_data: the parsed CSV (read again on every rerun), or None
load_data(file) == IF file # None THEN file ELSE None

\* A check of only the columns the script reads
HasUsedColumns(df) ==
    (required_columns \ {"Price Per Unit", "Cost Per Unit"}) \subseteq df.columns

\* required_columns.issubset(df.columns)
HasRequiredColumns(df) == required_columns \subseteq df.columns

\* pd.to_datetime(df["Date"]) raises on a cell that is no date (no table
\* drawn here has an empty date cell)
DateCellsParse(df) ==
    \A i \in 1..Len(df.rows) : ToDatetime(df.rows[i].Date).kind # "error"

\* df["Date"] = pd.to_datetime(df["Date"])
ConvertDates(df) ==
    [i \in 1..Len(df.rows) |->
        [df.rows[i] EXCEPT !.Date = ToDatetime(df.rows[i].Date).day]]

\* ----------------------------------------------------------------- filters

\* df["Product"].unique(): the multiselect's options and its default
ProductOptions(rows) == Unique(Column(rows, "Product"))

\* [df["Date"].min(), df["Date"].max()]: the date picker's default
DefaultDateRange(rows) ==
    <<Min(Range(Column(rows, "Date"))), Max(Range(Column(rows, "Date")))>>

\* Series.isin(values)
Isin(x, values) == x \in values

\* A range that leaves its end out
BetweenHalfOpen(x, left, right) == left <= x /\ x < right

\* Series.between(left, right), inclusive="both"
Between(x, left, right) == left <= x /\ x <= right

\* rows[mask]: the rows whose mask entry is True, in order
RECURSIVE BoolIndex(_, _)
BoolIndex(rows, mask) ==
    IF rows = <<>> THEN <<>>
    ELSE LET rest == BoolIndex(Tail(rows), Tail(mask))
         IN  IF Head(mask) THEN <<Head(rows)>> \o rest ELSE rest

\* The two masks joined with | in place of &
filtered_df_either(rows, pf, dr) ==
    BoolIndex(rows,
        [i \in 1..Len(rows) |->
            \/ Isin(rows[i].Product, pf)
            \/ Between(rows[i].Date, dr[1], dr[2])])

\* df[isin(product_filter) & between(date_range[0], date_range[1])]
filtered_df(rows, pf, dr) ==
    BoolIndex(rows,
        [i \in 1..Len(rows) |->
            /\ Isin(rows[i].Product, pf)
            /\ Between(rows[i].Date, dr[1], dr[2])])

\* ------------------------------------------------------------ aggregations

\* Series.sum()
Sum(rows, col) == SumSeq(Column(rows, col))

\* The keys of groupby(col), ascending: `order` lists every value ascending.
KeysAmong(values, order) ==
    LET present(k) == k \in values
    IN  SelectSeq(order, present)

GroupKeys(rows, col, order) == KeysAmong(Range(Column(rows, col)), order)

\* The rows of one group
Group(rows, col, k) ==
    LET member(r) == r[col] = k
    IN  SelectSeq(rows, member)

DayOrder == [i \in 1..Len(DigitChars) |-> i]
CategoryOrder == <<"X", "Y">>

\* groupby(col)[val].sum(): one [key, value] for each key, keys ascending
SumOfGroups(rows, col, val, ks) ==
    [i \in 1..Len(ks) |-> [key |-> ks[i], value |-> Sum(Group(rows, col, ks[i]), val)]]

GroupBySum(rows, col, val, order) ==
    SumOfGroups(rows, col, val, GroupKeys(rows, col, order))

\* filtered_df.groupby("Date")["Revenue"].sum().reset_index()
sales_trend(view) ==
    LET g == GroupBySum(view, "Date", "Revenue", DayOrder)
    IN  [i \in DOMAIN g |-> [Date |-> g[i].key, Revenue |-> g[i].value]]

\* go.Bar(x=Date, y=Profit/Loss, marker_color=green if x > 0 else red)
profit_bars(view) ==
    [i \in 1..Len(view) |->
        [Date |-> view[i].Date, ProfitLoss |-> view[i].ProfitLoss,
         color |-> IF view[i].ProfitLoss > 0 THEN "green" ELSE "red"]]

\* filtered_df.groupby("Product")["Revenue"].sum().reset_index()
RevenueByProduct(view) ==
    LET g == GroupBySum(view, "Product", "Revenue", ProductNames)
    IN  [i \in DOMAIN g |-> [Product |-> g[i].key, Revenue |-> g[i].value]]

\* sort_values(by="Revenue", ascending=False): equal revenues keep their order
RECURSIVE SortByRevenueDesc(_)
InsertAt(sorted, x, k) ==
    SubSeq(sorted, 1, k) \o <<x>> \o SubSeq(sorted, k + 1, Len(sorted))

\* x goes behind every entry whose revenue is not smaller
InsertByRevenue(sorted, x) ==
    InsertAt(sorted, x,
             Cardinality({i \in 1..Len(sorted) : sorted[i].Revenue >= x.Revenue}))

SortByRevenueDesc(s) ==
    IF s = <<>> THEN <<>>
    ELSE InsertByRevenue(SortByRevenueDesc(SubSeq(s, 1, Len(s) - 1)), s[Len(s)])

\* The ranking without its sort
top_products_unsorted(view) == HeadN(RevenueByProduct(view), TopN)

\* ... .sort_values(by="Revenue", ascending=False).head(5)
top_products(view) == HeadN(SortByRevenueDesc(RevenueByProduct(view)), TopN)

\* filtered_df.groupby("Category")["Revenue"].sum().reset_index()
category_revenue(view) ==
    LET g == GroupBySum(view, "Category", "Revenue", CategoryOrder)
    IN  [i \in DOMAIN g |-> [Category |-> g[i].key, Revenue |-> g[i].value]]

\* The label tested with >= in place of >
MetricsNonNegative(view) ==
    [total_sales |-> Sum(view, "Revenue"),
     total_profit_loss |-> Sum(view, "ProfitLoss"),
     delta |-> IF Sum(view, "ProfitLoss") >= 0 THEN "Profit" ELSE "Loss",
     delta_color |-> IF Sum(view, "ProfitLoss") >= 0 THEN "normal" ELSE "inverse",
     units_sold |-> Sum(view, "UnitsSold")]

\* The three st.metric cells
Metrics(view) ==
    [total_sales |-> Sum(view, "Revenue"),
     total_profit_loss |-> Sum(view, "ProfitLoss"),
     delta |-> IF Sum(view, "ProfitLoss") > 0 THEN "Profit" ELSE "Loss",
     delta_color |-> IF Sum(view, "ProfitLoss") > 0 THEN "normal" ELSE "inverse",
     units_sold |-> Sum(view, "UnitsSold")]

\* Series.idxmax(): the first row holding the largest value
IdxMax(view, col) ==
    Min({i \in 1..Len(view) : \A j \in 1..Len(view) : view[j][col] <= view[i][col]})

\* Series.idxmin(): the first row holding the smallest value
IdxMin(view, col) ==
    Min({i \in 1..Len(view) : \A j \in 1..Len(view) : view[j][col] >= view[i][col]})

\* --------------------------------------------------------------- narrative

\* The chatbot summary, src/app.py:108-130 (called with at least one row)
Narrative(view, top) ==
    [total_revenue |-> Sum(view, "Revenue"),
     total_profit |-> Sum(view, "ProfitLoss"),
     phrase |-> IF Sum(view, "ProfitLoss") > 0 THEN "win" ELSE "turn around",
     top_product |-> top[1].Product,
     top_product_revenue |-> top[1].Revenue,
     best_day |-> Strftime(view[IdxMax(view, "Revenue")].Date),
     worst_day |-> Strftime(view[IdxMin(view, "ProfitLoss")].Date)]

\* ---------------------------------------------------------------- chatbot

BestProductText == <<"b", "e", "s", "t", " ", "p", "r", "o", "d", "u", "c", "t">>
HowMuchText == <<"h", "o", "w", " ", "m", "u", "c", "h">>
OnText == <<"o", "n">>

BestAnswer(product, revenue) ==
    [kind |-> "best", product |-> product, date |-> <<>>, revenue |-> revenue]
DateAnswer(date, revenue) ==
    [kind |-> "date", product |-> "", date |-> date, revenue |-> revenue]
HelpAnswer == [kind |-> "help", product |-> "", date |-> <<>>, revenue |-> 0]
FallbackAnswer == [kind |-> "fallback", product |-> "", date |-> <<>>, revenue |-> 0]

\* filtered_df[filtered_df["Date"] == date]["Revenue"].sum(): the text `date`
\* is read back as a timestamp for the comparison
RowsAt(view, ts) ==
    LET on(r) == Timestamp(r.Date) = ts
    IN  SelectSeq(view, on)

RevenueOn(view, date) == Sum(RowsAt(view, ToDatetime(date)), "Revenue")

\* .strftime("%Y-%m-%d") of what to_datetime gave, the sum, the answer; the
\* except branch when to_datetime or NaT.strftime raised
DateAnswerFor(view, parsed) ==
    IF parsed.kind = "ts"
    THEN DateAnswer(Strftime(parsed.day), RevenueOn(view, Strftime(parsed.day)))
    ELSE HelpAnswer

\* The try/except of src/app.py:139-144
DateBranch(view, question) ==
    DateAnswerFor(view, ToDatetime(Strip(LastPiece(question, OnText))))

\* The branches with the date pattern tested first
AnswerToDateFirst(view, top, question) ==
    IF Contains(question, HowMuchText) /\ Contains(question, OnText)
    THEN DateBranch(view, question)
    ELSE IF Contains(question, BestProductText)
    THEN BestAnswer(top[1].Product, top[1].Revenue)
    ELSE FallbackAnswer

\* The branches of src/app.py:136-146 on the lower-cased question
AnswerTo(view, top, question) ==
    IF Contains(question, BestProductText)
    THEN BestAnswer(top[1].Product, top[1].Revenue)
    ELSE IF Contains(question, HowMuchText) /\ Contains(question, OnText)
    THEN DateBranch(view, question)
    ELSE FallbackAnswer

\* The question box's answer, src/app.py:134-146: none for an empty text
Answer(view, top, text) ==
    IF text = <<>> THEN <<>> ELSE <<AnswerTo(view, top, Lower(text))>>

\* -------------------------------------------------------------------- tips

\* A mean as the fraction num / den; 0 / 0 is NaN.
NaN == [num |-> 0, den |-> 0]

\* filtered_df.groupby("Product")["Profit/Loss"].mean()
MeanOfGroups(rows, col, val, ks) ==
    [i \in 1..Len(ks) |->
        [Product |-> ks[i],
         Mean |-> [num |-> Sum(Group(rows, col, ks[i]), val),
                   den |-> Len(Group(rows, col, ks[i]))]]]

MeanProfitByProduct(view) ==
    MeanOfGroups(view, "Product", "ProfitLoss", GroupKeys(view, "Product", ProductNames))

\* Series.min(): NaN for an empty series
Smallest(ms) == CHOOSE m \in ms : \A o \in ms : m.num * o.den <= o.num * m.den

MinMean(means) ==
    IF means = <<>> THEN NaN ELSE Smallest({means[i].Mean : i \in 1..Len(means)})

\* x <= 0 in place of x < 0
NotPositive(x) == x.den > 0 /\ x.num <= 0

\* x < 0 for a mean; False for NaN
LessThanZero(x) == x.den > 0 /\ x.num < 0

\* ...mean()[lambda x: x < 0].index.tolist()
Losing(means) ==
    LET losing(m) == LessThanZero(m.Mean)
    IN  SelectSeq(means, losing)

losing_products(view) == Column(Losing(MeanProfitByProduct(view)), "Product")

\* n * sum(x * y) - sum(x) * sum(y)
CoMoment(view, a, b) ==
    Len(view) * SumSeq([i \in 1..Len(view) |-> view[i][a] * view[i][b]])
        - Sum(view, a) * Sum(view, b)

\* filtered_df["Units Sold"].corr(filtered_df["Profit/Loss"]) < num / den:
\* Pearson's r is NaN (the comparison False) for fewer than two rows or a
\* column without variance
RatioLessThan(sxy, sxx, syy, num, den) ==
    /\ sxx * syy > 0
    /\ \/ sxy < 0
       \/ den * den * sxy * sxy < num * num * sxx * syy

CorrLessThan(view, num, den) ==
    /\ Len(view) >= 2
    /\ RatioLessThan(CoMoment(view, "UnitsSold", "ProfitLoss"),
                     CoMoment(view, "UnitsSold", "UnitsSold"),
                     CoMoment(view, "ProfitLoss", "ProfitLoss"), num, den)

Tip(kind, products) == [kind |-> kind, products |-> products]

\* The tips section, src/app.py:149-156
Tips(view) ==
    (IF Sum(view, "ProfitLoss") < 0 THEN <<Tip("loss", <<>>)>> ELSE <<>>)
    \o (IF LessThanZero(MinMean(MeanProfitByProduct(view)))
        THEN <<Tip("losing products", losing_products(view))>> ELSE <<>>)
    \o (IF CorrLessThan(view, CorrNum, CorrDen)
        THEN <<Tip("diversify", <<>>)>> ELSE <<>>)

\* ------------------------------------------------------------- the script

\* df.head() of the preview, src/app.py:25
PreviewRows == 5

\* Nothing written: the page before any upload
Blank ==
    [steps |-> {}, raised |-> "", preview |-> <<>>, error |-> {},
     filtered_df |-> <<>>, metrics |-> <<>>, sales_trend |-> <<>>,
     profit_bars |-> <<>>, top_products |-> <<>>, category_revenue |-> <<>>,
     narrative |-> <<>>, answer |-> <<>>, tips |-> <<>>]

ChartSteps == {"filter", "metrics", "trend", "bars", "top", "category", "scatter"}

\* src/app.py:106-156, reached only if top_products.iloc[0] did not raise
Chatbot(charts, view, top, text) ==
    [charts EXCEPT
        !.steps = @ \cup {"narrative", "question", "tips"},
        !.narrative = <<Narrative(view, top)>>,
        !.answer = Answer(view, top, text),
        !.tips = Tips(view)]

\* src/app.py:44-104: the metrics and the five charts
Charts(side, view, top) ==
    [side EXCEPT
        !.steps = @ \cup ChartSteps,
        !.filtered_df = view,
        !.metrics = <<Metrics(view)>>,
        !.sales_trend = sales_trend(view),
        !.profit_bars = profit_bars(view),
        !.top_products = top,
        !.category_revenue = category_revenue(view)]

\* src/app.py:110: top_products.iloc[0] raises IndexError on an empty ranking
Summarised(charts, view, top, text) ==
    IF top = <<>>
    THEN [charts EXCEPT !.raised = "IndexError"]
    ELSE Chatbot(charts, view, top, text)

Ranked(side, view, top, text) == Summarised(Charts(side, view, top), view, top, text)

Dashboard(side, view, text) == Ranked(side, view, top_products(view), text)

\* src/app.py:39-42: date_range[1] raises IndexError for a range half picked
Filtered(side, rows, pf, dr, text) ==
    IF Len(dr) < 2
    THEN [side EXCEPT !.raised = "IndexError"]
    ELSE Dashboard(side, filtered_df(rows, pf, dr), text)

\* src/app.py:24-38: preview, column check, date conversion, sidebar
Validated(df, shown, pf, dr, text) ==
    IF ~HasRequiredColumns(df)
    THEN [shown EXCEPT !.steps = @ \cup {"error"}, !.error = required_columns]
    ELSE IF ~DateCellsParse(df)
    THEN [shown EXCEPT !.raised = "ParserError"]
    ELSE Filtered([shown EXCEPT !.steps = @ \cup {"to_datetime", "sidebar"}],
                  ConvertDates(df), pf, dr, text)

Loaded(df, pf, dr, text) ==
    IF df = None THEN Blank
    ELSE Validated(df,
                   [Blank EXCEPT !.steps = {"preview"},
                                 !.preview = HeadN(df.rows, PreviewRows)],
                   pf, dr, text)

\* One rerun of the script body, src/app.py:22-156, on the uploaded file and
\* the widgets' values: what it writes to the page.  `steps` are the sections
\* it ran, `raised` the exception that ended it early.
RunScript(file, pf, dr, text) == Loaded(load_data(file), pf, dr, text)

\* ------------------------------------------------------------------ inputs

\* One CSV row.  Price Per Unit and Cost Per Unit are columns no line reads.
Row(date, product, category, units, revenue, profit) ==
    [Date |-> date, Product |-> product, Category |-> category,
     UnitsSold |-> units, Revenue |-> revenue, ProfitLoss |-> profit]

File(name, columns, rows) == [name |-> name, columns |-> columns, rows |-> rows]

\* The sales a drawn row can record.
SaleKinds ==
    {[Category |-> "X", UnitsSold |-> 2, Revenue |-> 1, ProfitLoss |-> -1],
     [Category |-> "Y", UnitsSold |-> 1, Revenue |-> 2, ProfitLoss |-> 1],
     [Category |-> "X", UnitsSold |-> 3, Revenue |-> 2, ProfitLoss |-> 0]}

ViewRows ==
    {Row(Strftime(d), p, k.Category, k.UnitsSold, k.Revenue, k.ProfitLoss) :
        d \in Days, p \in Products, k \in SaleKinds}

\* Every table of 1..MaxRows drawn rows (an uploaded table holds a row).
ViewFiles ==
    {File("sales.csv", required_columns, rows) :
        rows \in UNION {[1..n -> ViewRows] : n \in 1..MaxRows}}

\* Tables for the ranking: one row for each of the first k products, with a
\* revenue of 1 or 2 and alternating days, and at most one more row.
TopBase(k, rev) ==
    [i \in 1..k |->
        Row(Strftime(IF i % 2 = 1 THEN 1 ELSE 2), ProductNames[i], "X", 1, rev[i], 0)]

TopFiles ==
    {File("products.csv", required_columns, rows) :
        rows \in UNION {
            {TopBase(k, rev) : rev \in [1..k -> {1, 2}]}
            \cup {Append(TopBase(k, rev), Row(Strftime(1), ProductNames[j], "Y", 2, r, 1)) :
                    rev \in [1..k -> {1, 2}], j \in 1..k, r \in {1, 2}}
            : k \in 1..NumTopProducts}}

\* The files of a session: the scenario of two products, a table of three
\* rows, one with more columns than required, three that lack required
\* columns, and one with a date cell that is no date.
ScenarioRows ==
    <<Row(Strftime(1), "A", "X", 10, 50, 20), Row(Strftime(2), "B", "Y", 5, 50, -10)>>

SessionFiles ==
    {File("scenario.csv", required_columns, ScenarioRows),
     File("january.csv", required_columns,
          <<Row(Strftime(1), "A", "X", 3, 30, -5), Row(Strftime(2), "B", "X", 1, 40, 5),
            Row(Strftime(2), "A", "Y", 2, 20, 5)>>),
     File("single.csv", required_columns \cup {"Region"},
          <<Row(Strftime(2), "B", "Y", 4, 80, -20)>>),
     File("no_revenue.csv", required_columns \ {"Revenue"},
          <<[Date |-> Strftime(1), Product |-> "A", Category |-> "X",
             UnitsSold |-> 10, ProfitLoss |-> 20]>>),
     File("no_cost.csv", required_columns \ {"Cost Per Unit"},
          <<Row(Strftime(1), "A", "X", 10, 50, 20)>>),
     File("notes.csv", {"Date", "Note"},
          <<[Date |-> Strftime(1), Note |-> "n"]>>),
     File("bad_date.csv", required_columns,
          <<Row(<<"s", "o", "o", "n">>, "A", "X", 10, 50, 20)>>)}

\* What the date picker can return: a start alone (a range half picked), or
\* a start and an end not before it.
DateRanges ==
    {<<a>> : a \in Days} \cup {dr \in Days \X Days : dr[1] <= dr[2]}

Space == <<" ">>

\* "how much on 2024-01-0d"
AskDay(d) == HowMuchText \o Space \o OnText \o Space \o Strftime(d)

Questions ==
    {<<>>,
     <<"B", "e", "s", "t", " ", "P", "r", "o", "d", "u", "c", "t">>,
     \* "how much is best product on 2024-01-01"
     HowMuchText \o <<" ", "i", "s", " ">> \o BestProductText \o Space \o OnText
        \o Space \o Strftime(1),
     <<"H", "o", "w", " ", "M", "u", "c", "h", " ", "O", "N", " ">> \o Strftime(1),
     AskDay(3),
     HowMuchText \o Space \o OnText \o Space \o <<"m", "o", "n", "d", "a", "y">>,
     HowMuchText \o Space \o OnText \o Space,
     HowMuchText \o Space \o <<"m", "o", "n", "e", "y">>,
     HowMuchText,
     <<"h", "e", "l", "l", "o">>}

\* ----------------------------------------------------------------- widgets

\* The sidebar widgets are created by src/app.py:37-38 from the table; the
\* question box by src/app.py:133.
SidebarShown(pg) == "sidebar" \in pg.steps
QuestionShown(pg) == "question" \in pg.steps

Parses(file) == HasRequiredColumns(file) /\ DateCellsParse(file)

\* A widget created again with the same options and default keeps its value;
\* with other ones, or when the last rerun did not create it, it starts from
\* its default.
ProductWidget(file) ==
    IF ~Parses(file) THEN {}
    ELSE IF /\ SidebarShown(page)
            /\ ProductOptions(ConvertDates(file))
                 = ProductOptions(ConvertDates(uploaded_file))
         THEN product_filter
         ELSE Range(ProductOptions(ConvertDates(file)))

DateWidget(file) ==
    IF ~Parses(file) THEN <<>>
    ELSE IF /\ SidebarShown(page)
            /\ DefaultDateRange(ConvertDates(file))
                 = DefaultDateRange(ConvertDates(uploaded_file))
         THEN date_range
         ELSE DefaultDateRange(ConvertDates(file))

\* The question box keeps its text while reruns create it.  A rerun that ends
\* without creating it forgets the text; after one that raised, the framework
\* may keep or forget it.
QuestionWidget(pg, text) ==
    IF QuestionShown(pg) THEN {text}
    ELSE IF pg.raised # "" THEN {text, <<>>}
    ELSE {<<>>}

\* The page and the widgets after a rerun that wrote pg.
Shows(file, pf, dr, text, pg) ==
    /\ uploaded_file' = file
    /\ product_filter' = pf
    /\ date_range' = dr
    /\ page' = pg
    /\ user_question' \in QuestionWidget(pg, text)

\* One rerun of the whole script on the new inputs.
Rerun(file, pf, dr, text) == Shows(file, pf, dr, text, RunScript(file, pf, dr, text))

\* ----------------------------------------------------------------- actions

\* A file is dropped on st.file_uploader.
Upload(files) ==
    \E file \in files :
        Rerun(file, ProductWidget(file), DateWidget(file), user_question)

\* The product multiselect changes.
ProductFilterChange ==
    /\ SidebarShown(page)
    /\ \E pf \in SUBSET Range(ProductOptions(ConvertDates(uploaded_file))) :
          Rerun(uploaded_file, pf, date_range, user_question)

\* The date picker changes.
DateRangeChange ==
    /\ SidebarShown(page)
    /\ \E dr \in DateRanges :
          Rerun(uploaded_file, product_filter, dr, user_question)

\* The question box changes.
QuestionChange ==
    /\ QuestionShown(page)
    /\ \E text \in Questions :
          Rerun(uploaded_file, product_filter, date_range, text)

\* ---------------------------------------------------------- specifications

\* A session: nothing uploaded yet, then any interactions.
Init ==
    /\ uploaded_file = None
    /\ product_filter = {}
    /\ date_range = <<>>
    /\ user_question = <<>>
    /\ page = Blank

UploadSession == Upload(SessionFiles)

Next == UploadSession \/ ProductFilterChange \/ DateRangeChange \/ QuestionChange

Spec == Init /\ [][Next]_vars

\* The first run on a drawn table, with the widgets at their defaults.
FirstRun(files) ==
    /\ uploaded_file \in files
    /\ product_filter = Range(ProductOptions(ConvertDates(uploaded_file)))
    /\ date_range = DefaultDateRange(ConvertDates(uploaded_file))
    /\ user_question = <<>>
    /\ page = RunScript(uploaded_file, product_filter, date_range, user_question)

\* The script as a function of table and filters: every drawn table, then
\* any change of the filters.
InitView == FirstRun(ViewFiles)

NextView == ProductFilterChange \/ DateRangeChange

SpecView == InitView /\ [][NextView]_vars

\* The script as a function of table, product filter and question.
NextAsk == ProductFilterChange \/ QuestionChange

SpecAsk == InitView /\ [][NextAsk]_vars

\* The ranking on tables of up to NumTopProducts products.
InitTop == FirstRun(TopFiles)

NextTop == DateRangeChange

SpecTop == InitTop /\ [][NextTop]_vars

\* ------------------------------------------------------------------ claims

\* The steps after the column check.
LaterSteps == {"to_datetime", "sidebar"} \cup ChartSteps \cup {"narrative", "question", "tips"}

\* C1: a rerun whose FilteredView has no row completes without raising: the
\* three totals are 0, the time series, the ranking and the category revenues
\* are empty, and the narrative, the question box and the tips are reached.
C1_EmptyViewCompletes ==
    ("filter" \in page.steps /\ page.filtered_df = <<>>) =>
        /\ page.raised = ""
        /\ page.metrics[1].total_sales = 0
        /\ page.metrics[1].total_profit_loss = 0
        /\ page.metrics[1].units_sold = 0
        /\ page.sales_trend = <<>>
        /\ page.top_products = <<>>
        /\ page.category_revenue = <<>>
        /\ {"narrative", "question", "tips"} \subseteq page.steps

\* C2: a table lacking one of the eight required columns gets the validation
\* error and none of the later steps (no date conversion, filter, metric,
\* chart, narrative, answer or tip); the later steps run only on a table that
\* has all eight.
C2_MissingColumnsHalt ==
    LET eight == {"Date", "Product", "Category", "Units Sold", "Price Per Unit",
                  "Cost Per Unit", "Revenue", "Profit/Loss"}
        complete == \A c \in eight : c \in uploaded_file.columns
    IN  /\ (uploaded_file # None /\ ~complete) =>
              /\ page.error = eight
              /\ page.steps \cap LaterSteps = {}
              /\ page.raised = ""
              /\ page.filtered_df = <<>> /\ page.metrics = <<>>
              /\ page.sales_trend = <<>> /\ page.profit_bars = <<>>
              /\ page.top_products = <<>> /\ page.category_revenue = <<>>
              /\ page.narrative = <<>> /\ page.answer = <<>> /\ page.tips = <<>>
        /\ (page.steps \cap LaterSteps # {}) => (complete /\ page.error = {})

C2_Witness ==
    /\ uploaded_file.columns = required_columns \ {"Cost Per Unit"}
    /\ page.error # {}
    /\ page.preview # <<>>

\* C3: FilteredView is exactly the rows of the dataset, in dataset order,
\* whose Product is selected and whose Date lies in [start, end], both ends
\* included.
C3_FilteredViewExact ==
    (Parses(uploaded_file) /\ Len(date_range) = 2) =>
        LET matches(r) == /\ r.Product \in product_filter
                          /\ date_range[1] <= r.Date
                          /\ r.Date <= date_range[2]
        IN  /\ "filter" \in page.steps
            /\ page.filtered_df = SelectSeq(ConvertDates(uploaded_file), matches)

C3_Witness ==
    /\ "filter" \in page.steps
    /\ Len(uploaded_file.rows) = 2
    /\ Len(page.filtered_df) = 1
    /\ date_range[1] = date_range[2]
    /\ \A i \in 1..2 : ToDatetime(uploaded_file.rows[i].Date).day = date_range[1]
    /\ Cardinality(product_filter) = 1

\* C4: the ranking has min(5, distinct products of FilteredView) entries,
\* each a product of the view with the sum of the Revenue of its rows, in
\* non-increasing order of that sum, and no product left out has a larger sum
\* than one that is in.
C4_TopProducts ==
    ("top" \in page.steps) =>
        LET view == page.filtered_df
            top == page.top_products
            products == {view[i].Product : i \in 1..Len(view)}
            revenue(p) == SumSeq([i \in 1..Len(view) |->
                              IF view[i].Product = p THEN view[i].Revenue ELSE 0])
            ranked == {top[i].Product : i \in 1..Len(top)}
        IN  /\ Len(top) = IF Cardinality(products) < 5 THEN Cardinality(products) ELSE 5
            /\ Cardinality(ranked) = Len(top)
            /\ ranked \subseteq products
            /\ \A i \in 1..Len(top) : top[i].Revenue = revenue(top[i].Product)
            /\ \A i \in 1..Len(top) : \A j \in i..Len(top) :
                  top[i].Revenue >= top[j].Revenue
            /\ \A p \in ranked : \A q \in products \ ranked : revenue(p) >= revenue(q)

C4_Witness ==
    /\ "top" \in page.steps
    /\ Len(page.top_products) = 5
    /\ Cardinality({page.filtered_df[i].Product : i \in 1..Len(page.filtered_df)}) > 5
    /\ Len(page.filtered_df) > 6
    /\ page.top_products[1].Revenue > page.top_products[5].Revenue
    /\ page.top_products[1].Product # "A"

\* C5: a question whose lower-cased text contains "best product" (also one
\* that contains "how much" and "on" as well) is answered with the product and
\* the summed Revenue of the first entry of the ranking shown for the same
\* FilteredView; no date answer, help message or fallback is written.  (A
\* ranking without a first entry is the case of C1.)
C5_BestProductFirst ==
    Contains(Lower(user_question), BestProductText) =>
        /\ \A i \in 1..Len(page.answer) : page.answer[i].kind = "best"
        /\ page.top_products # <<>> =>
              /\ Len(page.answer) = 1
              /\ page.answer[1].product = page.top_products[1].Product
              /\ page.answer[1].revenue = page.top_products[1].Revenue

C5_Witness ==
    /\ Contains(Lower(user_question), BestProductText)
    /\ Contains(Lower(user_question), HowMuchText)
    /\ Contains(Lower(user_question), OnText)
    /\ Len(page.top_products) = 2
    /\ page.answer # <<>>
    /\ page.answer[1].kind = "best"
    /\ page.answer[1].product = "B"

\* C6: a question without "best product" but with "how much" and "on" is
\* answered, whatever the FilteredView, with the sum of the Revenue of the
\* view's rows on the date written after the last "on" (0 when no row has
\* it), or with the help message when that text is no date; nothing is raised
\* and the fallback is not written.
C6_HowMuchOn ==
    LET question == Lower(user_question)
        parsed == ToDatetime(Strip(LastPiece(question, OnText)))
        view == page.filtered_df
        revenue == SumSeq([i \in 1..Len(view) |->
                       IF view[i].Date = parsed.day THEN view[i].Revenue ELSE 0])
    IN  (/\ "filter" \in page.steps
         /\ ~Contains(question, BestProductText)
         /\ Contains(question, HowMuchText)
         /\ Contains(question, OnText)) =>
            /\ page.raised = ""
            /\ Len(page.answer) = 1
            /\ IF parsed.kind = "ts"
               THEN /\ page.answer[1].kind = "date"
                    /\ ToDatetime(page.answer[1].date) = parsed
                    /\ page.answer[1].revenue = revenue
               ELSE page.answer[1].kind = "help"

\* C6 on every FilteredView that has a row: there the claim holds.
C6_HowMuchOnRows ==
    (page.filtered_df # <<>>) => C6_HowMuchOn

\* C7: with every product of the dataset selected and the date range from the
\* smallest to the largest Date of the dataset, FilteredView is the dataset,
\* and the totals, the time series, the ranking and the category revenues are
\* those of the dataset.
C7_DefaultFilterIsIdentity ==
    Parses(uploaded_file) =>
        LET rows == ConvertDates(uploaded_file)
            dates == {rows[i].Date : i \in 1..Len(rows)}
        IN  (/\ product_filter = {rows[i].Product : i \in 1..Len(rows)}
             /\ Len(date_range) = 2
             /\ \A d \in dates : date_range[1] <= d /\ d <= date_range[2]
             /\ date_range[1] \in dates /\ date_range[2] \in dates) =>
                /\ page.filtered_df = rows
                /\ page.metrics = <<Metrics(rows)>>
                /\ page.sales_trend = sales_trend(rows)
                /\ page.top_products = top_products(rows)
                /\ page.category_revenue = category_revenue(rows)

C7_Witness ==
    /\ Parses(uploaded_file)
    /\ Len(uploaded_file.rows) = 2
    /\ product_filter = {"A", "B"}
    /\ date_range = <<1, 2>>
    /\ Len(page.filtered_df) = 2
    /\ page.filtered_df[1].Date = 2

\* C8: the Profit/Loss metric is labelled "Profit" exactly when the sum of
\* ProfitLoss over FilteredView is > 0 and "Loss" otherwise (so at 0); the
\* narrative's phrase agrees with the label; the tips' loss warning is written
\* only for a sum < 0.
C8_ProfitLabel ==
    ("metrics" \in page.steps) =>
        LET view == page.filtered_df
            total == SumSeq([i \in 1..Len(view) |-> view[i].ProfitLoss])
            warned == \E i \in 1..Len(page.tips) : page.tips[i].kind = "loss"
        IN  /\ page.metrics[1].total_profit_loss = total
            /\ page.metrics[1].delta = (IF total > 0 THEN "Profit" ELSE "Loss")
            /\ \A i \in 1..Len(page.narrative) :
                  (page.narrative[i].phrase = "win") <=> (page.metrics[1].delta = "Profit")
            /\ warned => total < 0
            /\ ("tips" \in page.steps /\ total < 0) => warned

C8_Witness ==
    /\ "tips" \in page.steps
    /\ Len(page.filtered_df) = 2
    /\ date_range = <<1, 2>>
    /\ \A i \in 1..2 : page.filtered_df[i].Date = 2
    /\ page.metrics[1].total_profit_loss = 0
    /\ page.metrics[1].delta = "Loss"
    /\ page.narrative[1].phrase = "turn around"
    /\ \A i \in 1..Len(page.tips) : page.tips[i].kind # "loss"

\* C9: the losing-products tip is written if and only if some product of
\* FilteredView has a mean ProfitLoss < 0; it is written once and names
\* exactly the products whose mean is < 0.
C9_LosingProductsTip ==
    ("filter" \in page.steps) =>
        LET view == page.filtered_df
            products == {view[i].Product : i \in 1..Len(view)}
            total(p) == SumSeq([i \in 1..Len(view) |->
                            IF view[i].Product = p THEN view[i].ProfitLoss ELSE 0])
            count(p) == Cardinality({i \in 1..Len(view) : view[i].Product = p})
            \* total / count < 0, the count being positive
            losing == {p \in products : total(p) < 0 * count(p)}
            tips == {i \in 1..Len(page.tips) : page.tips[i].kind = "losing products"}
        IN  /\ (tips # {}) <=> (losing # {})
            /\ Cardinality(tips) <= 1
            /\ \A i \in tips :
                  /\ Range(page.tips[i].products) = losing
                  /\ Len(page.tips[i].products) = Cardinality(losing)

C9_Witness ==
    /\ "tips" \in page.steps
    /\ Len(page.filtered_df) = 2
    /\ date_range = <<1, 2>>
    /\ \A i \in 1..2 : page.filtered_df[i].Date = 1
    /\ page.filtered_df[1].Product # page.filtered_df[2].Product
    /\ \E i \in 1..Len(page.tips) :
          /\ page.tips[i].kind = "losing products"
          /\ Len(page.tips[i].products) = 1

\* C10: after any interactions the page is what one rerun of the whole script
\* writes for the file, the filters and the question as they are now: nothing
\* from an earlier file, filter or question stays, and the rows shown are
\* rows of the file uploaded last.
C10_PageIsCurrent ==
    /\ page = RunScript(uploaded_file, product_filter, date_range, user_question)
    /\ page.preview = HeadN(uploaded_file.rows, 5)
    /\ (uploaded_file = None) => (page = Blank)
    /\ Parses(uploaded_file) =>
          \A i \in 1..Len(page.filtered_df) :
              \E j \in 1..Len(uploaded_file.rows) :
                  page.filtered_df[i] = ConvertDates(uploaded_file)[j]
    /\ (user_question = <<>>) => (page.answer = <<>>)

C10_Witness ==
    /\ uploaded_file.name = "january.csv"
    /\ product_filter = {"A"}
    /\ date_range = <<2, 2>>
    /\ user_question = AskDay(3)
    /\ Len(page.filtered_df) = 1
    /\ page.metrics[1].total_sales = 20
    /\ page.answer = <<DateAnswer(Strftime(3), 0)>>

====
